---- MODULE Spec2Model ----
(***************************************************************************)
(* Model of the OpenShift assistant: the configuration loader (config.py), *)
(* the multi-cluster registry and resource gateway OpenshiftMCP            *)
(* (openshift_mcp.py) and the interactive loop (chatbot.py).               *)
(*                                                                         *)
(* Two drivers use the registry: the program's own main() (configuration   *)
(* -> initialize_openshift -> command loop) and a direct client of the     *)
(* OpenshiftMCP class (constructor, switch_context, the getters), which    *)
(* is how the class is exercised outside the loop.                         *)
(***************************************************************************)
EXTENDS Integers, Sequences, FiniteSets, TLC

\* ------------------------------------------------------------------ bounds

\* Longest context list handed to the constructor by a direct client.
MaxContexts == 2

\* Most CLUSTER_*_NAME variables present in the environment.
MaxNameVars == 2

\* ------------------------------------------------------------- Python values

\* Python's None.
None == "<None>"

\* The value of an environment variable that is not set.
Unset == "<unset>"

Range(s) == { s[i] : i \in 1..Len(s) }

\* str.lower() on the strings the model uses.
Lower(s) ==
    CASE s = "B"    -> "b"
      [] s = "Pods" -> "pods"
      [] s = "EXIT" -> "exit"
      [] OTHER      -> s

\* str.upper() on the cluster names the model uses.
Upper(s) ==
    CASE s = "a" -> "A"
      [] s = "b" -> "B"
      [] OTHER   -> s

\* Truthiness of a Python string (bool(s)); an unset variable reads as None.
Truthy(s) == s # "" /\ s # Unset /\ s # None

\* ---------------------------------------------------------- OpenshiftContext

\* @dataclass OpenshiftContext; verify_ssl defaults to False.
OpenshiftContext(name, api_url, token, namespace, verify_ssl) ==
    [ name |-> name, api_url |-> api_url, token |-> token,
      namespace |-> namespace, verify_ssl |-> verify_ssl ]

\* Contexts a direct client of the class constructs. Two of them share the
\* name "a", one has an upper-case name, one verifies certificates.
ContextPool ==
    { OpenshiftContext("a", "https://a", "ta", "na", FALSE),
      OpenshiftContext("b", "https://b", "tb", "nb", TRUE),
      OpenshiftContext("a", "https://a2", "ta2", "na2", TRUE),
      OpenshiftContext("B", "https://B", "tB", "nB", FALSE) }

\* All sequences over S of length at most n.
SeqsUpTo(S, n) == UNION { [1..k -> S] : k \in 0..n }

\* Names a caller may pass to switch_context.
SwitchNames == { "a", "b", "B", "zz", "" }

\* ------------------------------------------------------------ the dictionary

\* {ctx.name: ctx for ctx in contexts}: keys in order of first insertion,
\* the value of a repeated key is the last one given.
RECURSIVE DictKeys(_)
DictKeys(ctxs) ==
    IF ctxs = << >> THEN << >>
    ELSE LET front == DictKeys(SubSeq(ctxs, 1, Len(ctxs) - 1))
             last  == ctxs[Len(ctxs)].name
         IN  IF last \in Range(front) THEN front ELSE Append(front, last)

DictValue(ctxs, name) ==
    LET idx == { i \in 1..Len(ctxs) : ctxs[i].name = name }
        hi  == CHOOSE i \in idx : \A j \in idx : j <= i
    IN  ctxs[hi]

DictFrom(ctxs) ==
    [ keys |-> DictKeys(ctxs),
      at   |-> [ n \in { c.name : c \in Range(ctxs) } |-> DictValue(ctxs, n) ] ]

\* `name in self.contexts`
HasKey(d, name) == name \in DOMAIN d.at

\* ------------------------------------------------------------------ config.py

\* @dataclass ClusterConfig
ClusterConfig(name, url, token, namespace) ==
    [ name |-> name, url |-> url, token |-> token, namespace |-> namespace ]

\* os.getenv(key, default) for a variable whose value is v.
Getenv(v, default) == IF v = Unset THEN default ELSE v

\* The URL, TOKEN and NAMESPACE variables that may stand behind one prefix.
PropSettings ==
    { [ URL |-> "https://x", TOKEN |-> "tx", NAMESPACE |-> "nx" ],
      [ URL |-> "https://x", TOKEN |-> "",   NAMESPACE |-> "nx" ],
      [ URL |-> Unset,       TOKEN |-> Unset, NAMESPACE |-> Unset ] }

\* The same settings with the values made specific to the prefix they stand
\* behind, so that two clusters never share an endpoint by accident.
Tagged(ps, tag) ==
    [ p \in DOMAIN ps |-> IF Truthy(ps[p]) THEN ps[p] \o "-" \o tag ELSE ps[p] ]

\* Values a *_NAME variable may hold.
EnvNames == { "a", "b", "B", "" }

\* Prefix labels: the upper-cased names.
Labels == { Upper(n) : n \in EnvNames }

\* The part of os.environ the loader reads (behind a CLUSTER_<LABEL>_ prefix
\* the three variables are all set or all unset; an empty token is tried on
\* the default cluster):
\*   DEFAULT_CLUSTER_NAME, DEFAULT_CLUSTER_{URL,TOKEN,NAMESPACE},
\*   the values of the CLUSTER_*_NAME variables,
\*   CLUSTER_<LABEL>_{URL,TOKEN,NAMESPACE} for each label.
Environs ==
    { [ default_name |-> dn, default |-> Tagged(dp, "default"),
        names |-> ns, props |-> [ l \in Labels |-> Tagged(pp[l], l) ] ] :
        dn \in { Unset, "a", "" },
        dp \in PropSettings,
        ns \in { S \in SUBSET EnvNames : Cardinality(S) <= MaxNameVars },
        pp \in [ Labels -> { ps \in PropSettings : ps.TOKEN # "" } ] }

\* Every order in which a set may be iterated.
Orders(S) ==
    { o \in [1..Cardinality(S) -> S] : \A i, j \in DOMAIN o : i # j => o[i] # o[j] }

\* config.py line 28-33: the default cluster, always appended.
DefaultCluster(env) ==
    ClusterConfig(Getenv(env.default_name, "default"),
                  Getenv(env.default.URL, ""),
                  Getenv(env.default.TOKEN, ""),
                  Getenv(env.default.NAMESPACE, ""))

\* config.py line 38-45: the names found in CLUSTER_*_NAME variables, the
\* default cluster's name left out.
ClusterNames(env) == { n \in env.names : n # DefaultCluster(env).name }

\* config.py line 48-56, for the names taken in the order `order`.
RECURSIVE LoadNamed(_, _)
LoadNamed(env, order) ==
    IF order = << >> THEN << >>
    ELSE LET name == order[1]
             ps   == env.props[Upper(name)]
             rest == LoadNamed(env, Tail(order))
         IN  IF Truthy(ps.URL) /\ Truthy(ps.TOKEN) /\ Truthy(ps.NAMESPACE)
             THEN << ClusterConfig(name, ps.URL, ps.TOKEN, ps.NAMESPACE) >> \o rest
             ELSE rest

\* Config._load_clusters, with the set's iteration order given.
_load_clusters(env, order) == << DefaultCluster(env) >> \o LoadNamed(env, order)

\* ---------------------------------------------------------------- chatbot.py

\* initialize_openshift, lines 10-19: the configurations that have a URL, a
\* token and a namespace, as contexts (verify_ssl left at its default).
RECURSIVE ValidClusters(_)
ValidClusters(cfgs) ==
    IF cfgs = << >> THEN << >>
    ELSE LET c == cfgs[1]
         IN  IF Truthy(c.url) /\ Truthy(c.token) /\ Truthy(c.namespace)
             THEN << OpenshiftContext(c.name, c.url, c.token, c.namespace, FALSE) >>
                  \o ValidClusters(Tail(cfgs))
             ELSE ValidClusters(Tail(cfgs))

\* ----------------------------------------------------------- openshift_mcp.py

\* __init__ that makes the last context the current one.
OpenshiftMCP_last(contexts) ==
    [ contexts        |-> DictFrom(contexts),
      current_context |-> IF contexts # << >> THEN contexts[Len(contexts)].name
                                              ELSE None ]

\* OpenshiftMCP.__init__: the instance built from a list of contexts.
OpenshiftMCP(contexts) ==
    [ contexts        |-> DictFrom(contexts),
      current_context |-> IF contexts # << >> THEN contexts[1].name ELSE None ]

\* __init__ line 20-21: urllib3.disable_warnings() is called when some
\* context does not verify certificates.
DisablesWarnings(contexts) == \E i \in 1..Len(contexts) : ~contexts[i].verify_ssl

\* switch_context without the membership test: any name becomes current.
switch_context_unchecked(self, name) ==
    [ self |-> [ self EXCEPT !.current_context = name ], ret |-> TRUE ]

\* switch_context that reports a known name and forgets to select it.
switch_context_noset(self, name) ==
    [ self |-> self, ret |-> HasKey(self.contexts, name) ]

\* switch_context that selects the name before testing it.
switch_context_sets_first(self, name) ==
    [ self |-> [ self EXCEPT !.current_context = name ],
      ret  |-> HasKey(self.contexts, name) ]

\* switch_context: the instance afterwards and the value returned.
switch_context(self, name) ==
    IF HasKey(self.contexts, name)
    THEN [ self |-> [ self EXCEPT !.current_context = name ], ret |-> TRUE ]
    ELSE [ self |-> self, ret |-> FALSE ]

\* list_contexts that puts the current context first.
list_contexts_current_first(self) ==
    << self.current_context >>
        \o SelectSeq(self.contexts.keys, LAMBDA k : k # self.current_context)

\* list_contexts
list_contexts(self) == self.contexts.keys

\* get_current_context
get_current_context(self) == self.current_context

\* self.contexts[self.current_context]; raises KeyError when the key is absent.
CurrentCtx(self) == self.contexts.at[self.current_context]

\* _get_headers that takes the token of the first context, whichever is
\* current.
_get_headers_first(self) ==
    [ Authorization |-> "Bearer " \o self.contexts.at[self.contexts.keys[1]].token ]

\* _get_headers
_get_headers(self) ==
    [ Authorization |-> "Bearer " \o CurrentCtx(self).token ]

\* _get_base_url
_get_base_url(self) ==
    CurrentCtx(self).api_url \o "/api/v1/namespaces/" \o CurrentCtx(self).namespace

\* The five getters, named as the interactive loop's keywords name them.
Kinds == { "pod", "service", "deployment", "quota", "configmap" }

\* The getters with get_deployments built like the others, on the core v1
\* base URL.
GetterUrl_all_core(self, kind) ==
    CASE kind = "pod"        -> _get_base_url(self) \o "/pods"
      [] kind = "service"    -> _get_base_url(self) \o "/services"
      [] kind = "deployment" -> _get_base_url(self) \o "/deployments"
      [] kind = "quota"      -> _get_base_url(self) \o "/resourcequotas"
      [] kind = "configmap"  -> _get_base_url(self) \o "/configmaps"

\* The URL each getter builds (get_pods line 52, get_services 62,
\* get_deployments 72, get_resource_quotas 82, get_config_maps 92).
GetterUrl(self, kind) ==
    CASE kind = "pod"        -> _get_base_url(self) \o "/pods"
      [] kind = "service"    -> _get_base_url(self) \o "/services"
      [] kind = "deployment" -> CurrentCtx(self).api_url \o "/apis/apps/v1/namespaces/"
                                   \o CurrentCtx(self).namespace \o "/deployments"
      [] kind = "quota"      -> _get_base_url(self) \o "/resourcequotas"
      [] kind = "configmap"  -> _get_base_url(self) \o "/configmaps"

\* The requests.get(...) call a getter makes.
GetterRequest(self, kind) ==
    [ method  |-> "GET",
      url     |-> GetterUrl(self, kind),
      headers |-> _get_headers(self),
      verify  |-> CurrentCtx(self).verify_ssl ]

\* What requests.get can come back with: a response of the upstream, or an
\* exception of the requests library when the transport fails. No timeout is
\* passed, so an endpoint that never answers yields neither.
Statuses == { 200, 403, 500 }

\* Response bodies: three JSON documents and one text that is not JSON.
EmptyObject == "{}"
EmptyItems  == "{\"items\": []}"
OneItem     == "{\"items\": [{\"name\": \"p1\"}]}"
PlainText   == "Forbidden"
Bodies == { EmptyObject, EmptyItems, OneItem, PlainText }

TransportErrors == { "ConnectionError", "SSLError" }

Replies ==
    { [ type |-> "response", status_code |-> s, text |-> b ] :
        s \in Statuses, b \in Bodies }
    \cup { [ type |-> "exception", exc |-> e ] : e \in TransportErrors }

\* response.json(): the parsed document. A JSON object is the set of its
\* members, a JSON array the sequence of its elements (here the names of the
\* listed resources); a body that is not JSON does not parse.
IsJson(text) == text \in { EmptyObject, EmptyItems, OneItem }

json(text) ==
    CASE text = EmptyObject -> { }
      [] text = EmptyItems  -> { [ key |-> "items", value |-> << >> ] }
      [] text = OneItem     -> { [ key |-> "items", value |-> << "p1" >> ] }

\* A value returned by a call.
Return(v) == [ how |-> "return", value |-> v ]

\* An exception raised by a call: its type and the parts of its message.
Raise(type, message) == [ how |-> "raise", type |-> type, message |-> message ]

\* _handle_response whose error message leaves the response text out.
_handle_response_no_text(response) ==
    IF response.status_code = 200
    THEN IF IsJson(response.text)
         THEN Return(json(response.text))
         ELSE Raise("JSONDecodeError", << "Expecting value" >>)
    ELSE Raise("Exception", << "API Error: ", ToString(response.status_code) >>)

\* _handle_response that returns only the members that list something.
_handle_response_filtered(response) ==
    IF response.status_code = 200
    THEN IF IsJson(response.text)
         THEN Return({ m \in json(response.text) : m.value # << >> })
         ELSE Raise("JSONDecodeError", << "Expecting value" >>)
    ELSE Raise("Exception",
               << "API Error: ", ToString(response.status_code), " - ", response.text >>)

\* _handle_response
_handle_response(response) ==
    IF response.status_code = 200
    THEN IF IsJson(response.text)
         THEN Return(json(response.text))
         ELSE Raise("JSONDecodeError", << "Expecting value" >>)
    ELSE Raise("Exception",
               << "API Error: ", ToString(response.status_code), " - ", response.text >>)

\* How a getter ends once requests.get has come back with `reply`.
GetterOutcome(reply) ==
    IF reply.type = "exception"
    THEN Raise(reply.exc, << reply.exc >>)
    ELSE _handle_response(reply)

\* ------------------------------------------------- the interactive loop's input

\* A line typed at the prompt, as the sequence of its words and the blanks
\* between them.
Blank == " "

Lines ==
    { << "exit" >>, << "EXIT" >>, << "help" >>, << "clusters" >>,
      << "use", Blank, "a" >>, << "use", Blank, "b" >>, << "use", Blank, "B" >>,
      << "use", Blank, "zz" >>, << "use", Blank >>,
      << "pods" >>, << Blank, "Pods", Blank >>, << "services" >>,
      << "deployments" >>, << "quotas" >>, << "configmaps" >>,
      << "services", Blank, "pods" >>, << "hello" >> }

\* str.strip()
RECURSIVE LStrip(_)
LStrip(s) == IF s # << >> /\ Head(s) = Blank THEN LStrip(Tail(s)) ELSE s

RECURSIVE RStrip(_)
RStrip(s) ==
    IF s # << >> /\ s[Len(s)] = Blank THEN RStrip(SubSeq(s, 1, Len(s) - 1)) ELSE s

Strip(s) == LStrip(RStrip(s))

\* str.lower() of a line
LowerLine(s) == [ i \in 1..Len(s) |-> Lower(s[i]) ]

\* The line as one string.
RECURSIVE Join(_)
Join(s) == IF s = << >> THEN "" ELSE Head(s) \o Join(Tail(s))

\* input(...).strip().lower()
ReadCommand(line) == LowerLine(Strip(line))

\* user_input.startswith('use ')
StartsWithUse(ui) == Len(ui) >= 2 /\ ui[1] = "use" /\ ui[2] = Blank

\* user_input[4:].strip()
ClusterNameOf(ui) == Join(Strip(SubSeq(ui, 3, Len(ui))))

\* `kw in user_input`: the keyword is part of one of the line's words.
KeywordsOf(word) ==
    CASE word = "pods"        -> { "pod" }
      [] word = "services"    -> { "service" }
      [] word = "deployments" -> { "deployment" }
      [] word = "quotas"      -> { "quota" }
      [] word = "configmaps"  -> { "configmap" }
      [] OTHER                -> { }

Mentions(ui, kw) == \E i \in 1..Len(ui) : kw \in KeywordsOf(ui[i])

\* main line 147-156: the getter the if/elif chain picks, None if no keyword
\* is found.
PickGetter(ui) ==
    CASE Mentions(ui, "pod")        -> "pod"
      [] Mentions(ui, "service")    -> "service"
      [] Mentions(ui, "deployment") -> "deployment"
      [] Mentions(ui, "quota")      -> "quota"
      [] Mentions(ui, "configmap")  -> "configmap"
      [] OTHER                      -> None

\* The lines handled before any resource is fetched (main line 119-140).
IsBuiltin(ui) ==
    ui = << "exit" >> \/ ui = << "help" >> \/ ui = << "clusters" >> \/ StartsWithUse(ui)

\* `if context_data:` -- a dict is true when it has a member.
DataTruthy(data) == data # { }

\* What the loop prints.
Say(msg, detail) == [ msg |-> msg, detail |-> detail ]

\* main line 128-131: one line per context, the current one marked.
ClusterListing(self) ==
    [ i \in 1..Len(list_contexts(self)) |->
        [ mark    |-> list_contexts(self)[i] = get_current_context(self),
          cluster |-> list_contexts(self)[i] ] ]

\* ---------------------------------------------------------------------- state

VARIABLES
    pc,          \* where control is: "start", "main", "fatal", "prompt",
                 \* "client", "requests_get" (inside the blocking GET), "done"
    driver,      \* who uses the registry: "none" yet, "main" or "client"
    clusters,    \* config.clusters
    openshift,   \* the OpenshiftMCP instance
    given,       \* history: the list the instance was constructed from
    warnings,    \* urllib3's warnings: "on" or "off" (disable_warnings called)
    stdin,       \* the loop's input: "open" or "eof"
    user_input,  \* the command being handled by the loop
    request,     \* the GET issued by the operation in progress
    sent,        \* how many GETs the operation in progress has issued
    endpoint,    \* whether the cluster endpoint answers that GET
    response,    \* what requests.get came back with
    result,      \* how the registry operation in progress ended
    out,         \* what the loop printed last
    selected     \* history: the name given to the last switch that returned True

vars == << pc, driver, clusters, openshift, given, warnings, stdin, user_input,
           request, sent, endpoint, response, result, out, selected >>

NoInstance == [ contexts |-> None ]
NoRequest  == [ method |-> None ]
NoResponse == [ type |-> None ]
NoResult   == [ op |-> None ]
NoOutput   == Say(None, None)

\* The record of a registry operation: which one, its argument, how it ended.
Ended(op, arg, end) == [ op |-> op, arg |-> arg, end |-> end ]

\* A getter that has not come back yet.
Pending == [ how |-> "pending" ]

Init ==
    /\ pc = "start"
    /\ driver = "none"
    /\ clusters = << >>
    /\ openshift = NoInstance
    /\ given = << >>
    /\ warnings = "on"
    /\ stdin = "open"
    /\ user_input = << >>
    /\ request = NoRequest
    /\ sent = 0
    /\ endpoint = None
    /\ response = NoResponse
    /\ result = NoResult
    /\ out = NoOutput
    /\ selected = None

\* --------------------------------------------------------------- program start

\* config.py line 61, run when chatbot.py imports config: Config() reads the
\* environment. The order in which the set of names is iterated is not fixed.
ImportConfig ==
    /\ pc = "start"
    /\ \E env \in Environs :
         \E order \in Orders(ClusterNames(env)) :
            clusters' = _load_clusters(env, order)
    /\ pc' = "main"
    /\ driver' = "main"
    /\ UNCHANGED << given, response, openshift, warnings, stdin, user_input,
                    request, sent, endpoint, result, out, selected >>

\* main line 106 with initialize_openshift line 21-24, no valid cluster:
\* ValueError leaves main before the loop.
StartupFails ==
    /\ pc = "main"
    /\ ValidClusters(clusters) = << >>
    /\ pc' = "fatal"
    /\ out' = Say("ValueError", "No valid cluster configurations found in .env file")
    /\ UNCHANGED << given, response, driver, clusters, openshift, warnings,
                    stdin, user_input, request, sent, endpoint, result,
                    selected >>

\* Startup without the test of line 21-22: the registry is built from
\* whatever list came out of the filter.
Startup_unchecked ==
    /\ pc = "main"
    /\ given' = ValidClusters(clusters)
    /\ openshift' = OpenshiftMCP(ValidClusters(clusters))
    /\ warnings' = IF DisablesWarnings(ValidClusters(clusters)) THEN "off" ELSE warnings
    /\ out' = Say("banner", get_current_context(openshift'))
    /\ pc' = "prompt"
    /\ UNCHANGED << response, driver, clusters, stdin, user_input, request,
                    sent, endpoint, result, selected >>

\* main line 106-113: the registry is built and the banner printed.
Startup ==
    /\ pc = "main"
    /\ ValidClusters(clusters) # << >>
    /\ given' = ValidClusters(clusters)
    /\ openshift' = OpenshiftMCP(ValidClusters(clusters))
    /\ warnings' = IF DisablesWarnings(ValidClusters(clusters)) THEN "off" ELSE warnings
    /\ out' = Say("banner", get_current_context(openshift'))
    /\ pc' = "prompt"
    /\ UNCHANGED << response, driver, clusters, stdin, user_input, request,
                    sent, endpoint, result, selected >>

\* A client builds the instance itself.
Construct ==
    /\ pc = "start"
    /\ \E contexts \in SeqsUpTo(ContextPool, MaxContexts) :
         /\ given' = contexts
         /\ openshift' = OpenshiftMCP(contexts)
         /\ warnings' = IF DisablesWarnings(contexts) THEN "off" ELSE warnings
    /\ pc' = "client"
    /\ driver' = "client"
    /\ UNCHANGED << response, clusters, stdin, user_input, request, sent,
                    endpoint, result, out, selected >>

\* ------------------------------------------------------- the interactive loop

\* A line is read (main line 117); every command starts from here.
Reads(line) ==
    /\ pc = "prompt"
    /\ stdin = "open"
    /\ user_input' = ReadCommand(line)

\* main line 119-121
Exit ==
    \E line \in Lines :
        /\ Reads(line)
        /\ user_input' = << "exit" >>
        /\ out' = Say("goodbye", None)
        /\ pc' = "done"
        /\ request' = NoRequest /\ sent' = 0
        /\ response' = NoResponse /\ result' = NoResult
        /\ UNCHANGED << given, driver, clusters, openshift, warnings, stdin,
                        endpoint, selected >>

\* main line 123-125
Help ==
    \E line \in Lines :
        /\ Reads(line)
        /\ user_input' = << "help" >>
        /\ out' = Say("help", None)
        /\ request' = NoRequest /\ sent' = 0
        /\ response' = NoResponse /\ result' = NoResult
        /\ UNCHANGED << given, pc, driver, clusters, openshift, warnings,
                        stdin, endpoint, selected >>

\* main line 127-132
ListClusters ==
    \E line \in Lines :
        /\ Reads(line)
        /\ user_input' = << "clusters" >>
        /\ out' = Say("clusters", ClusterListing(openshift))
        /\ request' = NoRequest /\ sent' = 0
        /\ response' = NoResponse /\ result' = NoResult
        /\ UNCHANGED << given, pc, driver, clusters, openshift, warnings,
                        stdin, endpoint, selected >>

\* main line 134-140
Use ==
    \E line \in Lines :
        /\ Reads(line)
        /\ StartsWithUse(user_input')
        /\ LET name == ClusterNameOf(user_input')
               r    == switch_context(openshift, name)
           IN  /\ openshift' = r.self
               /\ result' = Ended("switch_context", name, Return(r.ret))
               /\ selected' = IF r.ret THEN name ELSE selected
               /\ out' = IF r.ret THEN Say("switched", name) ELSE Say("not_found", name)
        /\ request' = NoRequest /\ sent' = 0 /\ response' = NoResponse
        /\ UNCHANGED << given, pc, driver, clusters, warnings, stdin,
                        endpoint >>

\* main line 142-156, a keyword is found: the getter issues its GET and the
\* loop waits inside requests.get. The registry of main() is never empty, so
\* the getter's lookup self.contexts[self.current_context] finds its key.
Fetch ==
    \E line \in Lines :
        /\ Reads(line)
        /\ ~IsBuiltin(user_input')
        /\ PickGetter(user_input') # None
        /\ request' = GetterRequest(openshift, PickGetter(user_input'))
        /\ sent' = 1
        /\ endpoint' \in { "answers", "silent" }
        /\ response' = NoResponse
        /\ result' = NoResult
        /\ out' = Say("processing", None)
        /\ pc' = "requests_get"
        /\ UNCHANGED << given, driver, clusters, openshift, warnings, stdin,
                        selected >>

\* main line 142-165, no keyword is found: context_data stays None.
NoKeyword ==
    \E line \in Lines :
        /\ Reads(line)
        /\ ~IsBuiltin(user_input')
        /\ PickGetter(user_input') = None
        /\ out' = Say("no_match", None)
        /\ request' = NoRequest /\ sent' = 0
        /\ response' = NoResponse /\ result' = NoResult
        /\ UNCHANGED << given, pc, driver, clusters, openshift, warnings,
                        stdin, endpoint, selected >>

\* main line 158-168: what the loop prints once the getter has ended with
\* `end`; `summarized` tells whether get_openai_response returned.
Report(self, end, summarized) ==
    IF end.how = "raise"
    THEN Say("api_error", end.message)
    ELSE IF DataTruthy(end.value)
         THEN IF summarized
              THEN Say("results", [ cluster |-> get_current_context(self),
                                     data    |-> end.value ])
              ELSE Say("api_error", << "summarizer" >>)
         ELSE Say("no_match", None)

\* Respond whose handler of a failed getter leaves the loop.
Respond_breaks ==
    /\ pc = "requests_get"
    /\ driver = "main"
    /\ endpoint = "answers"
    /\ \E reply \in Replies, summarized \in BOOLEAN :
         /\ response' = reply
         /\ result' = Ended(PickGetter(user_input), None, GetterOutcome(reply))
         /\ out' = Report(openshift, GetterOutcome(reply), summarized)
         /\ pc' = IF GetterOutcome(reply).how = "raise" THEN "done" ELSE "prompt"
    /\ UNCHANGED << given, driver, clusters, openshift, warnings, stdin,
                    user_input, request, sent, endpoint, selected >>

\* Respond that sends the GET once more when the first attempt failed.
Respond_retries ==
    /\ pc = "requests_get"
    /\ driver = "main"
    /\ endpoint = "answers"
    /\ \E reply \in Replies, summarized \in BOOLEAN :
         IF GetterOutcome(reply).how = "raise" /\ sent = 1
         THEN /\ sent' = sent + 1
              /\ UNCHANGED << pc, response, result, out >>
         ELSE /\ response' = reply
              /\ result' = Ended(PickGetter(user_input), None, GetterOutcome(reply))
              /\ out' = Report(openshift, GetterOutcome(reply), summarized)
              /\ pc' = "prompt"
              /\ sent' = sent
    /\ UNCHANGED << given, driver, clusters, openshift, warnings, stdin,
                    user_input, request, endpoint, selected >>

\* requests.get comes back inside the loop: _handle_response, then
\* main line 158-168; the loop is back at the prompt.
Respond ==
    /\ pc = "requests_get"
    /\ driver = "main"
    /\ endpoint = "answers"
    /\ \E reply \in Replies, summarized \in BOOLEAN :
         /\ response' = reply
         /\ result' = Ended(PickGetter(user_input), None, GetterOutcome(reply))
         /\ out' = Report(openshift, GetterOutcome(reply), summarized)
    /\ pc' = "prompt"
    /\ UNCHANGED << given, driver, clusters, openshift, warnings, stdin,
                    user_input, request, sent, endpoint, selected >>

\* main line 170-172: Ctrl-C while waiting for a line or for the GET.
Interrupt ==
    /\ driver = "main"
    /\ pc \in { "prompt", "requests_get" }
    /\ out' = Say("goodbye", None)
    /\ pc' = "done"
    /\ UNCHANGED << given, response, driver, clusters, openshift, warnings,
                    stdin, user_input, request, sent, endpoint, result,
                    selected >>

\* main line 117 and 173-174: the input is exhausted, input() raises EOFError,
\* the loop reports it and goes on to read again.
EndOfInput ==
    /\ pc = "prompt"
    /\ stdin' = "eof"
    /\ out' = Say("error", "EOF when reading a line")
    /\ UNCHANGED << given, response, pc, driver, clusters, openshift, warnings,
                    user_input, request, sent, endpoint, result, selected >>

\* ------------------------------------------------------------------ the client

\* The client calls switch_context(name).
ClientSwitch ==
    /\ pc = "client"
    /\ \E name \in SwitchNames :
         LET r == switch_context(openshift, name)
         IN  /\ openshift' = r.self
             /\ result' = Ended("switch_context", name, Return(r.ret))
             /\ selected' = IF r.ret THEN name ELSE selected
    /\ request' = NoRequest /\ sent' = 0 /\ response' = NoResponse
    /\ UNCHANGED << given, pc, driver, clusters, warnings, stdin, user_input,
                    endpoint, out >>

\* The client calls list_contexts().
ClientList ==
    /\ pc = "client"
    /\ result' = Ended("list_contexts", None, Return(list_contexts(openshift)))
    /\ request' = NoRequest /\ sent' = 0 /\ response' = NoResponse
    /\ UNCHANGED << given, pc, driver, clusters, openshift, warnings, stdin,
                    user_input, endpoint, out, selected >>

\* The client calls a getter on an instance that has a current context: the
\* GET is issued.
ClientFetch ==
    /\ pc = "client"
    /\ HasKey(openshift.contexts, openshift.current_context)
    /\ \E kind \in Kinds :
         /\ request' = GetterRequest(openshift, kind)
         /\ sent' = 1
         /\ result' = Ended(kind, None, Pending)
    /\ response' = NoResponse
    /\ endpoint' \in { "answers", "silent" }
    /\ pc' = "requests_get"
    /\ UNCHANGED << given, driver, clusters, openshift, warnings, stdin,
                    user_input, out, selected >>

\* The client calls a getter on an instance built from no context:
\* self.contexts[None] raises KeyError before any request.
ClientFetchEmpty ==
    /\ pc = "client"
    /\ ~HasKey(openshift.contexts, openshift.current_context)
    /\ \E kind \in Kinds :
         result' = Ended(kind, None, Raise("KeyError", << None >>))
    /\ request' = NoRequest /\ sent' = 0 /\ response' = NoResponse
    /\ UNCHANGED << given, pc, driver, clusters, openshift, warnings, stdin,
                    user_input, endpoint, out, selected >>

\* requests.get comes back to the client's getter.
ClientRespond ==
    /\ pc = "requests_get"
    /\ driver = "client"
    /\ endpoint = "answers"
    /\ \E reply \in Replies :
         /\ response' = reply
         /\ result' = Ended(result.op, None, GetterOutcome(reply))
    /\ pc' = "client"
    /\ UNCHANGED << given, driver, clusters, openshift, warnings, stdin,
                    user_input, request, sent, endpoint, out, selected >>

Next ==
    \/ ImportConfig
    \/ StartupFails
    \/ Startup
    \/ Construct
    \/ Exit
    \/ Help
    \/ ListClusters
    \/ Use
    \/ Fetch
    \/ NoKeyword
    \/ Respond
    \/ Interrupt
    \/ EndOfInput
    \/ ClientSwitch
    \/ ClientList
    \/ ClientFetch
    \/ ClientFetchEmpty
    \/ ClientRespond

Spec == Init /\ [][Next]_vars

\* The program's own steps once a reply is there; the user's steps (typing a
\* line, Ctrl-C) and the endpoint's answer are not the program's to take.
FairSpec == Spec /\ WF_vars(Respond) /\ WF_vars(ClientRespond)

\* --------------------------------------------------------------------- claims

\* An instance exists.
Built == pc \in { "prompt", "client", "requests_get", "done" }

\* The names of the list the instance was constructed from.
GivenNames == { given[i].name : i \in 1..Len(given) }

\* A getter has ended with an exception after issuing its GET.
FetchFailed ==
    /\ result.op \in Kinds
    /\ request.method = "GET"
    /\ result.end.how = "raise"

\* C1. With a non-empty list given to the constructor, the current context
\* is at all times -- after switches to known and unknown names and after
\* fetches that succeed or fail -- the name of one of the given contexts and
\* a key of the instance's mapping.
C1_CurrentNeverDangling ==
    (Built /\ given # << >>) =>
        /\ openshift.current_context # None
        /\ openshift.current_context \in GivenNames
        /\ openshift.current_context \in DOMAIN openshift.contexts.at
        /\ CurrentCtx(openshift) \in Range(given)

\* C1, its case: two contexts, a switch has succeeded, a later fetch failed.
C1_Witness ==
    /\ pc = "client"
    /\ Len(given) = 2
    /\ selected # None
    /\ FetchFailed

\* C2. switch_context(name) returns True exactly when name is the name of a
\* given context; then the current context is the context of that name and
\* the mapping is as before; when it returns False the instance is exactly
\* as before the call. It always returns (never raises).
C2_SwitchContract ==
    [][ (Use \/ ClientSwitch) =>
          LET name == result'.arg
          IN  /\ result'.op = "switch_context"
              /\ result'.end.how = "return"
              /\ result'.end.value = (name \in GivenNames)
              /\ result'.end.value =>
                    /\ openshift'.current_context = name
                    /\ CurrentCtx(openshift').name = name
                    /\ CurrentCtx(openshift') \in Range(given)
                    /\ openshift'.contexts = openshift.contexts
              /\ ~result'.end.value => openshift' = openshift ]_vars

\* C2, its case: after a successful switch, a switch to an unknown name has
\* returned False.
C2_Witness ==
    /\ result.op = "switch_context"
    /\ result.end.value = FALSE
    /\ result.arg = "zz"
    /\ selected # None
    /\ selected # given[1].name
    /\ openshift.current_context = selected

\* The request of section 6 for profile p and a resource kind: the URL under
\* p's endpoint and namespace, p's bearer token, p's TLS setting.
Segment(kind) ==
    CASE kind = "pod"        -> "pods"
      [] kind = "service"    -> "services"
      [] kind = "deployment" -> "deployments"
      [] kind = "quota"      -> "resourcequotas"
      [] kind = "configmap"  -> "configmaps"

RequestTo(p, kind) ==
    [ method  |-> "GET",
      url     |-> IF kind = "deployment"
                  THEN p.api_url \o "/apis/apps/v1/namespaces/" \o p.namespace
                         \o "/" \o Segment(kind)
                  ELSE p.api_url \o "/api/v1/namespaces/" \o p.namespace
                         \o "/" \o Segment(kind),
      headers |-> [ Authorization |-> "Bearer " \o p.token ],
      verify  |-> p.verify_ssl ]

\* The resource kind of the fetch in progress.
KindInProgress == IF driver = "main" THEN PickGetter(user_input) ELSE result.op

\* C3. The GET a fetch issues is, whole, the request to one given context:
\* the one named by the last switch that returned True, or the one named as
\* the first given context when no switch has returned True. URL, namespace,
\* token and TLS setting all come from that one context. When the given
\* names are distinct and no switch has returned True it is the first given
\* context itself.
C3_FetchSeesLastSwitch ==
    pc = "requests_get" =>
        LET expected == IF selected = None THEN given[1].name ELSE selected
            unique   == \A i, j \in 1..Len(given) :
                            given[i].name = given[j].name => i = j
        IN  /\ \E i \in 1..Len(given) :
                  /\ given[i].name = expected
                  /\ request = RequestTo(given[i], KindInProgress)
            /\ (selected = None /\ unique) =>
                  request = RequestTo(given[1], KindInProgress)

\* C3, its case: a GET is in flight after a switch away from the first
\* context.
C3_Witness ==
    /\ pc = "requests_get"
    /\ selected # None
    /\ selected # given[1].name

\* A cluster configuration the startup can use: URL, token and namespace set.
Usable(c) == c.url # "" /\ c.token # "" /\ c.namespace # ""

\* C4 as stated. Constructing from an empty sequence fails and no instance
\* with an empty mapping and no current context ever exists.
C4_NoEmptyRegistry ==
    Built =>
        /\ list_contexts(openshift) # << >>
        /\ get_current_context(openshift) # None

\* C4 as amended. The program's startup fails with ValueError, before the
\* loop, exactly when the configuration holds no usable cluster, so main()
\* never runs with an empty registry; the constructor itself accepts an
\* empty sequence and yields an instance with an empty mapping and no
\* current context.
C4_StartupRejectsEmpty ==
    /\ (driver = "main" /\ pc # "main") =>
          IF \A i \in 1..Len(clusters) : ~Usable(clusters[i])
          THEN pc = "fatal" /\ out.msg = "ValueError"
          ELSE /\ Built
               /\ list_contexts(openshift) # << >>
               /\ get_current_context(openshift) # None
    /\ (driver = "client" /\ given = << >>) =>
          /\ list_contexts(openshift) = << >>
          /\ get_current_context(openshift) = None

\* C4, its case: the startup has failed on a configuration with no usable
\* cluster.
C4_Witness ==
    /\ pc = "fatal"
    /\ Len(clusters) >= 1
    /\ \A i \in 1..Len(clusters) : ~Usable(clusters[i])

\* C5. Every fetch that fails after issuing its GET -- the upstream answered
\* with a status other than 200, or the transport failed -- ends with one and
\* the same error type, the one _handle_response raises; no other type
\* escapes a getter.
C5_SingleErrorType ==
    FetchFailed => result.end.type = "Exception"

\* A getter has come back with an HTTP response whose status is not 200.
Non200 ==
    /\ result.op \in Kinds
    /\ response.type = "response"
    /\ response.status_code # 200

C7_Step ==
    pc \in { "prompt", "client", "requests_get" } =>
        /\ openshift'.contexts = openshift.contexts
        /\ (Fetch \/ Respond \/ ClientFetch \/ ClientFetchEmpty \/ ClientRespond)
              => openshift' = openshift
        /\ openshift'.current_context # openshift.current_context =>
              /\ Use \/ ClientSwitch
              /\ result'.end.value = TRUE
              /\ result'.arg = openshift'.current_context

C7_OnlySwitchChangesCurrent == [][C7_Step]_vars

\* C7, its case: after a switch away from the first context, a fetch of the
\* loop has failed on a 500 and the current context is still the one
\* switched to.
C7_Witness ==
    /\ driver = "main"
    /\ pc = "prompt"
    /\ FetchFailed
    /\ response.type = "response"
    /\ response.status_code = 500
    /\ selected # None
    /\ selected # given[1].name
    /\ openshift.current_context = selected

\* C8. In the loop a fetch that ends in an error -- the getter raised, or the
\* summarizer did -- leaves the loop at the prompt, input still open, with
\* the registry as it was before the fetch; and the session ends only by the
\* exit command or an interrupt.
C8_Step ==
    driver = "main" =>
        /\ ( /\ pc = "requests_get"
             /\ result'.op \in Kinds
             /\ (result'.end.how = "raise" \/ out'.msg = "api_error") )
              => ( /\ pc' = "prompt"
                   /\ stdin' = stdin
                   /\ openshift' = openshift )
        /\ (pc # "done" /\ pc' = "done") => (Exit \/ Interrupt)

C8_LoopSurvivesFailedFetch == [][C8_Step]_vars

\* C8, its case: the transport failed under a fetch of the loop, and the loop
\* is at the prompt again with its input open.
C8_Witness ==
    /\ driver = "main"
    /\ pc = "prompt"
    /\ stdin = "open"
    /\ FetchFailed
    /\ result.end.type = "ConnectionError"
    /\ out.msg = "api_error"

\* C9. Every fetch that has issued its GET eventually comes back, also when
\* the endpoint never answers: the call is bounded by a timeout and ends with
\* an error, so the loop is never held inside one fetch for ever.
C9_FetchCompletes == (pc = "requests_get") ~> (pc # "requests_get")

\* C10. For every non-empty list given to the constructor, before any switch
\* has succeeded, the current context's name is the name of the first context
\* of the list, and the context registered under it bears that name.
C10_FirstIsCurrent ==
    (Built /\ given # << >> /\ selected = None) =>
        /\ get_current_context(openshift) = given[1].name
        /\ CurrentCtx(openshift).name = given[1].name

\* C10, its case: an instance just built from two contexts of different
\* names.
C10_Witness ==
    /\ pc = "client"
    /\ Len(given) = 2
    /\ given[1].name # given[2].name
    /\ selected = None
    /\ result = NoResult

\* C11. Every context of a registry that main() builds from the loaded
\* configuration has a non-empty name, and no two of them share a name.
C11_NamesNonEmptyUnique ==
    (driver = "main" /\ Built) =>
        /\ \A i \in 1..Len(given) : given[i].name # ""
        /\ \A i, j \in 1..Len(given) : given[i].name = given[j].name => i = j
        /\ \A n \in DOMAIN openshift.contexts.at :
              n # "" /\ openshift.contexts.at[n].name = n

\* C11, the part that holds: the names of such a registry are distinct.
C11_NamesUnique ==
    (driver = "main" /\ Built) =>
        \A i, j \in 1..Len(given) : given[i].name = given[j].name => i = j

\* The place of a name's first occurrence in the given list.
FirstIndex(n) ==
    CHOOSE i \in 1..Len(given) :
        given[i].name = n /\ \A j \in 1..Len(given) : given[j].name = n => i <= j

\* l lists the given names, each exactly once, in the order in which they
\* first occur in the given list.
IsListing(l) ==
    /\ Range(l) = GivenNames
    /\ \A i, j \in 1..Len(l) : l[i] = l[j] => i = j
    /\ \A i, j \in 1..Len(l) : i < j => FirstIndex(l[i]) < FirstIndex(l[j])

\* C12. list_contexts returns exactly the names given at construction, each
\* exactly once, and in the same order (that of the given list) whatever
\* switches and fetches came before; the loop's `clusters` command prints
\* that list.
C12_ListIsGivenNames ==
    /\ result.op = "list_contexts" => IsListing(result.end.value)
    /\ (driver = "main" /\ out.msg = "clusters") =>
          IsListing([ i \in 1..Len(out.detail) |-> out.detail[i].cluster ])

\* C12, its case: the list is asked for after a switch away from the first of
\* two contexts.
C12_Witness ==
    /\ result.op = "list_contexts"
    /\ Len(given) = 2
    /\ selected # None
    /\ selected # given[1].name
    /\ Len(result.end.value) = 2

\* C13. A fetch on a registry that has contexts issues exactly one GET,
\* whatever its outcome: one while it waits, still one when it has returned
\* or raised (a failed request is not sent again), and that one request goes
\* to the current context's cluster.
C13_OneGetPerFetch ==
    /\ sent <= 1
    /\ pc = "requests_get" => sent = 1
    /\ (result.op \in Kinds /\ given # << >>) => sent = 1
    /\ sent = 1 =>
          /\ request.method = "GET"
          /\ request = GetterRequest(openshift, KindInProgress)

\* C13, its case: a fetch of the loop has failed on a 500 answer.
C13_Witness ==
    /\ driver = "main"
    /\ pc = "prompt"
    /\ FetchFailed
    /\ response.type = "response"
    /\ response.status_code = 500
    /\ sent = 1

\* The command word that asks the loop for a kind.
WordOf(kind) ==
    CASE kind = "pod"        -> "pods"
      [] kind = "service"    -> "services"
      [] kind = "deployment" -> "deployments"
      [] kind = "quota"      -> "quotas"
      [] kind = "configmap"  -> "configmaps"

\* The fetch in progress was asked for `kind`: by the client's call, or by
\* the loop's one-word command.
Asked(kind) ==
    IF driver = "client" THEN result.op = kind ELSE user_input = << WordOf(kind) >>

\* The URL of section 6 for a kind under endpoint `api` and namespace `ns`.
UrlOf(api, ns, kind) ==
    CASE kind = "pod"        -> api \o "/api/v1/namespaces/" \o ns \o "/pods"
      [] kind = "service"    -> api \o "/api/v1/namespaces/" \o ns \o "/services"
      [] kind = "deployment" -> api \o "/apis/apps/v1/namespaces/" \o ns \o "/deployments"
      [] kind = "quota"      -> api \o "/api/v1/namespaces/" \o ns \o "/resourcequotas"
      [] kind = "configmap"  -> api \o "/api/v1/namespaces/" \o ns \o "/configmaps"

\* C14. For each of the five kinds the GET goes to the URL built from the
\* current context's api_url and namespace and the kind's own path:
\* deployments under /apis/apps/v1, the other four under /api/v1; it is the
\* URL of no other kind.
C14_UrlPerKind ==
    pc = "requests_get" =>
        \A kind \in Kinds :
            Asked(kind) =>
                LET ctx == CurrentCtx(openshift)
                IN  /\ request.url = UrlOf(ctx.api_url, ctx.namespace, kind)
                    /\ \A other \in Kinds \ { kind } :
                          request.url # UrlOf(ctx.api_url, ctx.namespace, other)

\* C14, its case: the loop has issued the GET of the `deployments` command
\* after a switch.
C14_Witness ==
    /\ driver = "main"
    /\ pc = "requests_get"
    /\ user_input = << "deployments" >>
    /\ selected # None

\* A getter has come back with an HTTP response.
Answered == result.op \in Kinds /\ response.type = "response"

\* The JSON documents among the bodies and what each of them says.
JsonBodies == { "{}", "{\"items\": []}", "{\"items\": [{\"name\": \"p1\"}]}" }

Document(text) ==
    CASE text = "{}"             -> { }
      [] text = "{\"items\": []}" -> { [ key |-> "items", value |-> << >> ] }
      [] text = "{\"items\": [{\"name\": \"p1\"}]}"
                                 -> { [ key |-> "items", value |-> << "p1" >> ] }

\* C15 as stated. A fetch returns data if and only if the status is 200, and
\* the data is the parsed body, unchanged.
C15_DataIff200 ==
    Answered =>
        /\ (result.end.how = "return") = (response.status_code = 200)
        /\ result.end.how = "return" => result.end.value = Document(response.text)

\* C15 as amended. A fetch returns data if and only if the status is 200 and
\* the body parses as JSON, and the data is then the parsed body, unchanged;
\* on a 200 whose body is not JSON the fetch raises the parser's error.
C15_DataIff200AndJson ==
    Answered =>
        /\ (result.end.how = "return") =
              (response.status_code = 200 /\ response.text \in JsonBodies)
        /\ result.end.how = "return" => result.end.value = Document(response.text)
        /\ (response.status_code = 200 /\ response.text \notin JsonBodies) =>
              (result.end.how = "raise" /\ result.end.type = "JSONDecodeError")

\* C15, its case: a 200 answer that lists one resource has been returned.
C15_Witness ==
    /\ Answered
    /\ response.status_code = 200
    /\ response.text = OneItem
    /\ result.end.how = "return"
    /\ result.end.value # { }

\* C16. In the loop, for every name n that `clusters` lists, the command
\* `use n` makes n the current context and reports the switch.
C16_Step ==
    (driver = "main" /\ pc = "prompt") =>
        \A n \in Range(list_contexts(openshift)) :
            (Use /\ user_input' = ReadCommand(<< "use", Blank, n >>)) =>
                /\ get_current_context(openshift') = n
                /\ out' = Say("switched", n)

C16_UseSelectsListedName == [][C16_Step]_vars

\* C16, the part that holds: a listed name written in lower case only is
\* selected by `use`.
C16_LowerStep ==
    (driver = "main" /\ pc = "prompt") =>
        \A n \in Range(list_contexts(openshift)) :
            (Use /\ Lower(n) = n /\ user_input' = ReadCommand(<< "use", Blank, n >>)) =>
                /\ get_current_context(openshift') = n
                /\ out' = Say("switched", n)

C16_UseSelectsLowerCaseName == [][C16_LowerStep]_vars

\* C17. The loop prints 'No matching resources found' exactly when the
\* command names none of the five kinds: never after a fetch that succeeded,
\* whatever its payload, the empty one included.
C17_NoMatchOnlyWithoutKeyword ==
    (driver = "main" /\ out.msg = "no_match") => PickGetter(user_input) = None

\* C17, the part that holds: a command that names no kind always gets that
\* message, and a fetch that returned a payload with a member never does.
C17_NoMatchUnlessPayload ==
    /\ (driver = "main" /\ pc = "prompt" /\ stdin = "open"
          /\ user_input # << >> /\ ~IsBuiltin(user_input)
          /\ PickGetter(user_input) = None) => out.msg = "no_match"
    /\ (driver = "main" /\ out.msg = "no_match" /\ PickGetter(user_input) # None) =>
          (result.end.how = "return" /\ result.end.value = { })

\* C18. Once the input is exhausted the session ends: the loop does not
\* report the end of input as an error and read again for ever.
C18_EndsAtEndOfInput == (stdin = "eof") ~> (pc = "done")

====
